---------------------------- MODULE Spec2Model ----------------------------
(***************************************************************************)
(* A model of dxvk-cache-tool: the merger of DXVK state cache files.       *)
(*                                                                         *)
(*   Spec     the program of src/src/main.rs: main() reading the input     *)
(*            files one after the other into one LinkedHashMap and writing *)
(*            the merged file.                                             *)
(*   LibSpec  the cache type of src/src/dxvk.rs (with src/src/util.rs):    *)
(*            DxvkStateCache::open, extend and save, used on the files of  *)
(*            a command line.                                              *)
(*   MigSpec  a run with a target version, which converts the entries it   *)
(*            reads (the migrator is written from the specification).      *)
(*                                                                         *)
(* Files are sequences of bytes (0..255).  std's BufReader and BufWriter   *)
(* are modelled with their buffers, because the byte codec of main.rs      *)
(* (read_u8, read_u24, read_u32) is built on Read::read, whose result      *)
(* depends on what the buffer holds.  SHA-1 is modelled by a small digest  *)
(* function of the same shape (bytes in, HASH_SIZE bytes out).             *)
(*                                                                         *)
(* Where the code binds the result of a call and then matches on it        *)
(* (let r = f(..); match r ..), the model writes the match as a local      *)
(* operator of the result and applies it to the call: LET Match(r) == ..   *)
(* IN Match(f(..)).  A sequence of calls with ? becomes a chain of such    *)
(* operators, one per call, in the order of the calls.                     *)
(***************************************************************************)
EXTENDS Integers, Sequences, FiniteSets, TLC

\* ------------------------------------------------------------------ bounds

\* Capacity of std's BufReader (8 KiB in std), scaled down so that entry
\* headers of the small input files straddle the end of the buffer.
BufCap == 16

\* Capacity of std's BufWriter (8 KiB in std), scaled down likewise.
WBufCap == 32

\* The longest command line (number of input files) explored.
MaxFiles == 2

\* --------------------------------------------------------------- constants

HASH_SIZE == 20

LEGACY_VERSION == 7

MAGIC_STRING == <<68, 88, 86, 75>>

SHA1_EMPTY ==
  <<218, 57, 163, 238, 94, 107, 75, 13, 50, 85,
    191, 239, 149, 96, 24, 144, 175, 216, 7, 9>>

\* ------------------------------------------------------------ byte helpers

Min(a, b) == IF a < b THEN a ELSE b

Zeros(n) == [i \in 1..n |-> 0]

\* n as u8
AsU8(n) == n % 256

\* The little-endian value of a buffer of up to four bytes
\* (u32::from(buf[0]) + (u32::from(buf[1]) << 8) + ...).
FromLe(buf) ==
  LET B(i) == IF i <= Len(buf) THEN buf[i] ELSE 0
  IN  B(1) + B(2) * 256 + B(3) * 65536 + B(4) * 16777216

\* ------------------------------------------------------------------- SHA-1

\* Position-weighted sum of the bytes lo..hi of s, by halving.
RECURSIVE Sha1Mix(_, _, _)
Sha1Mix(s, lo, hi) ==
  IF lo > hi THEN 0
  ELSE IF lo = hi THEN ((lo % 251) * (s[lo] + 1)) % 65521
  ELSE LET mid == (lo + hi) \div 2
       IN  (Sha1Mix(s, lo, mid) + Sha1Mix(s, mid + 1, hi)) % 65521

\* Sha1::default(); update(bytes); digest().bytes(): a digest of HASH_SIZE
\* bytes that depends on every byte and on its position.
Sha1(bytes) ==
  LET acc == (Sha1Mix(bytes, 1, Len(bytes)) + 7 * Len(bytes) + 1) % 65521
  IN  [i \in 1..HASH_SIZE |-> ((acc + 1) * (i + 2) + (acc \div 256)) % 256]


\* ----------------------------------------------------- BufReader over a File

\* BufReader::new(file): nothing consumed, nothing buffered.  pos is the
\* offset of the next byte handed out, filled the offset up to which the
\* file's bytes are in the buffer.
NewReader == [pos |-> 0, filled |-> 0]

\* <BufReader as Read>::read(&mut buf) with buf.len() = n: with an empty
\* buffer and n >= capacity the buffer is bypassed; otherwise the buffer is
\* refilled when empty and the call returns what the buffer holds, which
\* may be fewer than n bytes.
Read(f, rd, n) ==
  IF rd.pos = rd.filled /\ n >= BufCap
  THEN LET k == Min(n, Len(f) - rd.pos)
       IN  [n     |-> k,
            bytes |-> SubSeq(f, rd.pos + 1, rd.pos + k),
            rd    |-> [pos |-> rd.pos + k, filled |-> rd.pos + k]]
  ELSE LET filled == IF rd.pos = rd.filled
                     THEN Min(rd.pos + BufCap, Len(f))
                     ELSE rd.filled
           k == Min(n, filled - rd.pos)
       IN  [n     |-> k,
            bytes |-> SubSeq(f, rd.pos + 1, rd.pos + k),
            rd    |-> [pos |-> rd.pos + k, filled |-> filled]]

\* Read::read_exact(&mut buf) with buf.len() = n: read until the buffer is
\* full; a read of zero bytes before that is ErrorKind::UnexpectedEof.
RECURSIVE ReadExactLoop(_, _, _, _)
ReadExactLoop(f, rd, n, got) ==
  LET Match(r) ==
        IF r.n = 0
        THEN [ok |-> FALSE, bytes |-> got, rd |-> r.rd]
        ELSE ReadExactLoop(f, r.rd, n - r.n, got \o r.bytes)
  IN  IF n = 0 THEN [ok |-> TRUE, bytes |-> got, rd |-> rd]
      ELSE Match(Read(f, rd, n))

read_exact(f, rd, n) == ReadExactLoop(f, rd, n, <<>>)

\* ------------------------------------------------- ReadEx (src/src/main.rs)

\* read_u32 / read_u24 / read_u8 of main.rs: one self.read(&mut buf) into a
\* zeroed buffer of n bytes; Ok(_) discards the count, the value is built
\* from the whole buffer.  (File reads raise no error of their own here, so
\* the call is always Ok.)
ReadUint(f, rd, n) ==
  LET Match(r) ==
        [ok    |-> TRUE,
         value |-> FromLe(r.bytes \o Zeros(n - r.n)),
         n     |-> r.n,
         rd    |-> r.rd]
  IN  Match(Read(f, rd, n))

read_u32(f, rd) == ReadUint(f, rd, 4)

read_u24(f, rd) == ReadUint(f, rd, 3)

read_u8(f, rd) == ReadUint(f, rd, 1)

\* What one codec call was asked and what it answered: the bytes the file
\* still held for it (at most `want`), and the result of the call.
CodecCall(f, rd, want, res) ==
  [want  |-> want,
   ahead |-> SubSeq(f, rd.pos + 1, Min(rd.pos + want, Len(f))),
   ok    |-> res.ok,
   value |-> res.value,
   n     |-> res.n]

\* ----------------------------------------------------------------- entries

\* Option<T> is a sequence of length 0 (None) or 1 (Some).
None == <<>>

Some(x) == <<x>>

\* DxvkStateCacheEntry::is_valid.
is_valid(e) ==
  Sha1(IF e.header = None THEN e.data \o SHA1_EMPTY ELSE e.data) = e.hash

\* read_header: magic by read_exact, version and entry_size by read_u32.
\* err is the error the ? operator returns ("none" when Ok).  The reads
\* follow each other: m is the result of the first, v of the second on the
\* reader the first left, s of the third.
read_header(f, rd) ==
  LET Header(m, v, s) ==
        IF ~m.ok
        THEN [err |-> "IoError(UnexpectedEof)", magic |-> m.bytes, version |-> 0,
              entry_size |-> 0, rd |-> m.rd, calls |-> <<>>]
        ELSE [err |-> "none", magic |-> m.bytes, version |-> v.value,
              entry_size |-> s.value, rd |-> s.rd,
              calls |-> <<CodecCall(f, m.rd, 4, v), CodecCall(f, v.rd, 4, s)>>]
      EntrySize(m, v) == Header(m, v, read_u32(f, v.rd))
      Version(m) == EntrySize(m, read_u32(f, m.rd))
  IN  Version(read_exact(f, rd, 4))

\* read_entry: the modern layout.  stage_mask: u8, entry_size: u24, then
\* with_header(header) sizes data, then hash and data by read_exact.
read_entry(f, rd) ==
  LET Entry(m, z, h, d, calls) ==
        IF ~h.ok
        THEN [err |-> "IoError(UnexpectedEof)", entry |-> None, rd |-> h.rd,
              calls |-> calls]
        ELSE IF ~d.ok
        THEN [err |-> "IoError(UnexpectedEof)", entry |-> None, rd |-> d.rd,
              calls |-> calls]
        ELSE [err   |-> "none",
              entry |-> Some([header |-> Some([stage_mask |-> m.value,
                                               entry_size |-> z.value]),
                              hash   |-> h.bytes,
                              data   |-> d.bytes]),
              rd    |-> d.rd,
              calls |-> calls]
      Data(m, z, h) ==
        Entry(m, z, h, read_exact(f, h.rd, z.value),
              <<CodecCall(f, rd, 1, m), CodecCall(f, m.rd, 3, z)>>)
      Hash(m, z) == Data(m, z, read_exact(f, z.rd, HASH_SIZE))
      EntrySize(m) == Hash(m, read_u24(f, m.rd))
  IN  EntrySize(read_u8(f, rd))

\* read_entry_legacy(reader, size): with_length(size) sizes data, then data
\* and hash by read_exact.
read_entry_legacy(f, rd, size) ==
  LET Entry(d, h) ==
        IF ~d.ok
        THEN [err |-> "IoError(UnexpectedEof)", entry |-> None, rd |-> d.rd,
              calls |-> <<>>]
        ELSE IF ~h.ok
        THEN [err |-> "IoError(UnexpectedEof)", entry |-> None, rd |-> h.rd,
              calls |-> <<>>]
        ELSE [err   |-> "none",
              entry |-> Some([header |-> None, hash |-> h.bytes,
                              data |-> d.bytes]),
              rd    |-> h.rd,
              calls |-> <<>>]
      Hash(d) == Entry(d, read_exact(f, d.rd, HASH_SIZE))
  IN  Hash(read_exact(f, rd, size))

\* header.entry_size as usize - HASH_SIZE: for entry_size < HASH_SIZE the
\* subtraction overflows.  A build with overflow checks panics there; a
\* build without them wraps to a length above isize::MAX, and vec![0; len]
\* of with_length panics with a capacity overflow.  Every build ends the
\* process, so the outcome is one: a panic.
LegacyDataLen(entry_size) ==
  IF entry_size >= HASH_SIZE
  THEN [panic |-> FALSE, len |-> entry_size - HASH_SIZE]
  ELSE [panic |-> TRUE, len |-> 0]

\* ----------------------------------------------------------- LinkedHashMap

\* The map is the sequence of its values in iteration order (front first);
\* the key of a value is its hash.
Keys(m) == {m[i].hash : i \in 1..Len(m)}

KeySeq(m) == [i \in 1..Len(m) |-> m[i].hash]

Without(m, k) == SelectSeq(m, LAMBDA x : x.hash # k)

\* An insert that replaces the value of an existing key where it stands.
InsertInPlace(m, e) ==
  IF e.hash \in Keys(m)
  THEN [i \in 1..Len(m) |-> IF m[i].hash = e.hash THEN e ELSE m[i]]
  ELSE Append(m, e)

\* An insert that keeps the value of an existing key.
InsertKeepOld(m, e) ==
  IF e.hash \in Keys(m) THEN m ELSE Append(m, e)

\* LinkedHashMap::insert(k, v) of the linked-hash-map crate: a new key is
\* attached at the back; for an existing key the value is replaced and the
\* node is detached and attached again at the back.
Insert(m, e) == Append(Without(m, e.hash), e)

\* ---------------------------------------------------- BufWriter over a File

\* A device is [limited, room]: a limited device takes `room` more bytes
\* and then fails every write (a full disk).
\* File::create(path) followed by BufWriter::new(file): the file exists and
\* is empty, nothing is buffered.
NewWriter(dev) ==
  [buf |-> <<>>, disk |-> <<>>, limited |-> dev.limited, room |-> dev.room]

\* <File as Write>::write_all(bytes).
FileWriteAll(w, bytes) ==
  IF ~w.limited
  THEN [ok |-> TRUE, w |-> [w EXCEPT !.disk = @ \o bytes]]
  ELSE IF Len(bytes) <= w.room
  THEN [ok |-> TRUE,
        w  |-> [w EXCEPT !.disk = @ \o bytes, !.room = @ - Len(bytes)]]
  ELSE [ok |-> FALSE,
        w  |-> [w EXCEPT !.disk = @ \o SubSeq(bytes, 1, w.room), !.room = 0]]

\* BufWriter::flush_buf: the buffered bytes go to the file; what was
\* written leaves the buffer.
FlushBuf(w) ==
  LET Match(r) ==
        IF r.ok THEN r
        ELSE [ok |-> FALSE,
              w  |-> [r.w EXCEPT
                        !.buf = SubSeq(w.buf, Len(r.w.disk) - Len(w.disk) + 1,
                                       Len(w.buf))]]
  IN  Match(FileWriteAll([w EXCEPT !.buf = <<>>], w.buf))

\* <BufWriter as Write>::write_all(bytes): bytes that fit are buffered;
\* otherwise the buffer is flushed first, and bytes as long as the buffer
\* go to the file directly.
WriteAll(w, bytes) ==
  LET spare == WBufCap - Len(w.buf)
      Flushed(fl) ==
        IF ~fl.ok THEN fl
        ELSE IF Len(bytes) >= WBufCap THEN FileWriteAll(fl.w, bytes)
        ELSE [ok |-> TRUE, w |-> [fl.w EXCEPT !.buf = @ \o bytes]]
  IN  IF Len(bytes) < spare
      THEN [ok |-> TRUE, w |-> [w EXCEPT !.buf = @ \o bytes]]
      ELSE Flushed(IF Len(bytes) > spare THEN FlushBuf(w)
                                         ELSE [ok |-> TRUE, w |-> w])

\* Drop of the BufWriter: flush_buf, its result ignored.  What is on the
\* device afterwards is the content of the output file.
DropWriter(w) == FlushBuf(w).w.disk

\* ------------------------------------------------ WriteEx (src/src/main.rs)

\* The buffers write_u32 / write_u24 / write_u8 hand to write_all.
write_u32(n) ==
  <<AsU8(n), AsU8(n \div 256), AsU8(n \div 65536), AsU8(n \div 16777216)>>

write_u24(n) == <<AsU8(n), AsU8(n \div 256), AsU8(n \div 65536)>>

write_u8(n) == <<n>>

\* wrtie_header: the write_all calls it makes, in order.
wrtie_header(header) ==
  <<MAGIC_STRING, write_u32(header.version), write_u32(header.entry_size)>>

\* The write_all calls of one iteration of write_state_cache.
WriteEntry(e) ==
  (IF e.header # None
   THEN <<write_u8(e.header[1].stage_mask), write_u24(e.header[1].entry_size)>>
   ELSE <<>>)
  \o <<e.hash, e.data>>

\* The write_all calls of one iteration of write_state_cache_legacy.
WriteEntryLegacy(e) == <<e.data, e.hash>>

RECURSIVE write_state_cache(_)
write_state_cache(entries) ==
  IF entries = <<>> THEN <<>>
  ELSE WriteEntry(Head(entries)) \o write_state_cache(Tail(entries))

RECURSIVE write_state_cache_legacy(_)
write_state_cache_legacy(entries) ==
  IF entries = <<>> THEN <<>>
  ELSE WriteEntryLegacy(Head(entries)) \o write_state_cache_legacy(Tail(entries))

\* The calls of a list made on writer w, each followed by ?: the first
\* failing call ends the list.
RECURSIVE WriteCalls(_, _)
WriteCalls(w, calls) ==
  LET Match(r) == IF r.ok THEN WriteCalls(r.w, Tail(calls)) ELSE r
  IN  IF calls = <<>> THEN [ok |-> TRUE, w |-> w]
      ELSE Match(WriteAll(w, Head(calls)))

RECURSIVE Flatten(_)
Flatten(chunks) ==
  IF chunks = <<>> THEN <<>> ELSE Head(chunks) \o Flatten(Tail(chunks))

\* ------------------------------------------------------------- input files

LegacyEntry(data) ==
  [header |-> None, hash |-> Sha1(data \o SHA1_EMPTY), data |-> data]

ModernEntry(mask, data) ==
  [header |-> Some([stage_mask |-> mask, entry_size |-> Len(data)]),
   hash   |-> Sha1(data),
   data   |-> data]

\* An entry whose stored hash is not the hash of its data.
Corrupt(e) == [e EXCEPT !.hash[1] = (@ + 1) % 256]

LegacyBytes(version, entry_size, es) ==
  Flatten(wrtie_header([version |-> version, entry_size |-> entry_size])
          \o write_state_cache_legacy(es))

ModernBytes(version, es) ==
  Flatten(wrtie_header([version |-> version, entry_size |-> 0])
          \o write_state_cache(es))

InputFile(bytes) == [ext |-> TRUE, exists |-> TRUE, bytes |-> bytes]

dA == <<1, 2>>
dB == <<3, 4>>
dC == <<5, 6>>
dD == <<7, 8, 9>>
dE == <<10, 11, 12>>
dF == <<13, 14, 15>>

\* The input files a command line is drawn from.
Corpus ==
  { \* legacy files of version 7, entry_size 22
    InputFile(LegacyBytes(7, 22, <<LegacyEntry(dA), LegacyEntry(dB)>>)),
    InputFile(LegacyBytes(7, 22, <<LegacyEntry(dB), LegacyEntry(dC)>>)),
    \* one entry, then the first bytes of a second one
    InputFile(LegacyBytes(7, 22, <<LegacyEntry(dA)>>) \o <<5, 6, 9>>),
    \* the same version with another entry_size
    InputFile(LegacyBytes(7, 23, <<LegacyEntry(dD)>>)),
    \* no valid entry
    InputFile(LegacyBytes(7, 22, <<Corrupt(LegacyEntry(dA)),
                                   Corrupt(LegacyEntry(dB))>>)),
    \* entry_size below HASH_SIZE
    InputFile(LegacyBytes(7, 10, <<>>) \o dD \o dE),
    \* modern files of version 8
    InputFile(ModernBytes(8, <<ModernEntry(1, dA), ModernEntry(2, dB)>>)),
    \* a valid entry, a corrupt one, then the first bytes of a third
    InputFile(ModernBytes(8, <<ModernEntry(3, dA), Corrupt(ModernEntry(1, dC))>>)
              \o <<1, 2>>),
    InputFile(ModernBytes(8, <<ModernEntry(1, dD), ModernEntry(1, dE),
                               ModernEntry(1, dF)>>)),
    \* versions 0 and 1
    InputFile(LegacyBytes(0, 22, <<LegacyEntry(dC)>>)),
    InputFile(LegacyBytes(1, 22, <<LegacyEntry(dA)>>)),
    \* wrong magic
    InputFile(<<68, 88, 86, 76>> \o Tail(Tail(Tail(Tail(
                LegacyBytes(7, 22, <<LegacyEntry(dA)>>)))))),
    \* a file that ends inside its header
    InputFile(MAGIC_STRING \o <<7, 0>>),
    InputFile(<<68, 88>>),
    \* a name without the .dxvk-cache extension, and a file that is not there
    [ext |-> FALSE, exists |-> TRUE,
     bytes |-> LegacyBytes(7, 22, <<LegacyEntry(dA)>>)],
    [ext |-> TRUE, exists |-> FALSE, bytes |-> <<>>] }

\* The devices the output file may be created on: one that refuses the
\* file, full disks, and a disk with room for everything.
Devices ==
  {[create |-> FALSE, limited |-> TRUE, room |-> 0],
   [create |-> TRUE, limited |-> FALSE, room |-> 0],
   [create |-> TRUE, limited |-> TRUE, room |-> 0],
   [create |-> TRUE, limited |-> TRUE, room |-> WBufCap + 1]}

\* ------------------------------------------------------------------- state

VARIABLES
  files,        \* config.files: the input files of the command line
  pc,           \* where main() stands: "for", "loop", "done", "failed"
  idx,          \* the index in files of the file of the current iteration
  rd,           \* reader: the BufReader of the current file
  header,       \* header: the header read from the current file
  config,       \* config.version, config.entry_size, config.legacy
  entries,      \* entries: the LinkedHashMap
  entries_len,  \* entries_len: entries.len() before the read loop
  imported,     \* the counts printed by "Imported {} new entries"
  err,          \* the error main() returned ("none": none so far)
  out,          \* the output file: whether it exists, whether its device
                \* was a limited one, and its bytes
  readLog,      \* history: every entry a read call returned, with its file
  calls,        \* history: the codec calls of the last step
  cleanStop,    \* history: where in an entry the file ended when the last
                \* read loop ended without error
  target,       \* the target version of a migrating run (0: the run has none)
  migrated      \* history: every entry the migrator converted, before and
                \* after

vars == <<files, pc, idx, rd, header, config, entries, entries_len, imported,
          err, out, readLog, calls, cleanStop, target, migrated>>

CommandLines == UNION {[1..n -> Corpus] : n \in 1..MaxFiles}

\* Config::default() and the state of main() before its for loop.
Init ==
  /\ files \in CommandLines
  /\ pc = "for"
  /\ idx = 1
  /\ rd = NewReader
  /\ header = [version |-> 0, entry_size |-> 0]
  /\ config = [version |-> 0, entry_size |-> 0, legacy |-> FALSE]
  /\ entries = <<>>
  /\ entries_len = 0
  /\ imported = <<>>
  /\ err = "none"
  /\ out = [created |-> FALSE, limited |-> FALSE, bytes |-> <<>>]
  /\ readLog = <<>>
  /\ calls = <<>>
  /\ cleanStop = "none"
  /\ target = 0
  /\ migrated = <<>>

\* return Err(AppError::new(kind, ...)) and the ? operator.
Fail(kind) ==
  /\ pc' = "failed"
  /\ err' = kind

\* The version detection of main(): the first header seen while
\* config.version is 0 sets version, entry_size and legacy.
Detect(cfg, h) ==
  IF cfg.version = 0
  THEN [version |-> h.version, entry_size |-> h.entry_size,
        legacy |-> h.version < 8]
  ELSE cfg

\* One iteration of `for path in config.files`, up to the read loop: the
\* extension check, File::open, read_header, the magic check, the version
\* detection and the version check.
OpenFile ==
  /\ pc = "for"
  /\ idx <= Len(files)
  /\ LET Opened(f, h, cfg) ==
           IF ~f.ext
           THEN Fail("InvalidInput")
                /\ UNCHANGED <<rd, header, config, entries_len, calls>>
           ELSE IF ~f.exists
           THEN Fail("IoError(NotFound)")
                /\ UNCHANGED <<rd, header, config, entries_len, calls>>
           ELSE IF h.err # "none"
           THEN Fail(h.err)
                /\ rd' = h.rd
                /\ calls' = h.calls
                /\ UNCHANGED <<header, config, entries_len>>
           ELSE IF h.magic # MAGIC_STRING
           THEN Fail("InvalidData")
                /\ rd' = h.rd
                /\ calls' = h.calls
                /\ header' = [version |-> h.version, entry_size |-> h.entry_size]
                /\ UNCHANGED <<config, entries_len>>
           ELSE /\ rd' = h.rd
                /\ calls' = h.calls
                /\ header' = [version |-> h.version, entry_size |-> h.entry_size]
                /\ config' = cfg
                /\ IF h.version # cfg.version
                   THEN Fail("InvalidInput") /\ UNCHANGED entries_len
                   ELSE /\ pc' = "loop"
                        /\ entries_len' = Len(entries)
                        /\ UNCHANGED err
         Header(f, h) == Opened(f, h, Detect(config, h))
     IN  Header(files[idx], read_header(files[idx].bytes, NewReader))
  /\ UNCHANGED <<files, idx, entries, imported, out, readLog, cleanStop,
                 target, migrated>>

\* One iteration of the read loop of main() on file f with map m: read an
\* entry in the layout `legacy` selects; Ok(e) is inserted when valid;
\* UnexpectedEof breaks the loop; any other error is returned.
LoopIteration(f, r0, legacy, entry_size, m) ==
  LET size == LegacyDataLen(entry_size)
      Match(r) ==
        IF r.err = "none"
        THEN [kind  |-> "ok",
              m     |-> IF is_valid(r.entry[1]) THEN Insert(m, r.entry[1])
                                                ELSE m,
              rd    |-> r.rd,
              read  |-> r.entry,
              calls |-> r.calls]
        ELSE IF r.err = "IoError(UnexpectedEof)"
        THEN [kind |-> "break", m |-> m, rd |-> r.rd, read |-> None,
              calls |-> r.calls]
        ELSE [kind |-> r.err, m |-> m, rd |-> r.rd, read |-> None,
              calls |-> r.calls]
  IN  IF legacy /\ size.panic
      THEN [kind |-> "panic", m |-> m, rd |-> r0, read |-> None, calls |-> <<>>]
      ELSE Match(IF legacy THEN read_entry_legacy(f, r0, size.len)
                           ELSE read_entry(f, r0))

\* A step of main() inside the read loop.  After the break the count is
\* printed and the for loop goes on with the next file.
ReadStep ==
  /\ pc = "loop"
  /\ LET Match(f, it) ==
           /\ entries' = it.m
           /\ rd' = it.rd
           /\ calls' = it.calls
           /\ readLog' = IF it.read = None THEN readLog
                         ELSE Append(readLog,
                                     [file |-> idx, entry |-> it.read[1]])
           /\ IF it.kind = "ok"
              THEN UNCHANGED <<pc, err, idx, imported, cleanStop>>
              ELSE IF it.kind = "break"
              THEN /\ imported' = Append(imported, Len(entries) - entries_len)
                   /\ cleanStop' = IF rd.pos = Len(f) THEN "boundary"
                                                      ELSE "midentry"
                   /\ idx' = idx + 1
                   /\ pc' = "for"
                   /\ UNCHANGED err
              ELSE Fail(it.kind) /\ UNCHANGED <<idx, imported, cleanStop>>
     IN  Match(files[idx].bytes,
               LoopIteration(files[idx].bytes, rd, config.legacy,
                             header.entry_size, entries))
  /\ UNCHANGED <<files, header, config, entries_len, out, target, migrated>>

\* The writing of the output on device dev: File::create, wrtie_header,
\* the entries in the layout `legacy` selects, and the drop of the writer.
WriteOutput(hdr, legacy, m, dev) ==
  LET Written(r) == [ok |-> r.ok, bytes |-> DropWriter(r.w)]
  IN  Written(WriteCalls(NewWriter(dev),
                         wrtie_header(hdr)
                         \o (IF legacy THEN write_state_cache_legacy(m)
                                       ELSE write_state_cache(m))))

\* main() after the for loop: the check for an empty map, File::create, the
\* header, the entries, and the drop of the writer.
Finish ==
  /\ pc = "for"
  /\ idx > Len(files)
  /\ IF entries = <<>>
     THEN Fail("InvalidData") /\ UNCHANGED out
     ELSE \E dev \in Devices :
            LET Written(w) ==
                  IF ~dev.create
                  THEN Fail("IoError(PermissionDenied)") /\ UNCHANGED out
                  ELSE /\ out' = [created |-> TRUE, limited |-> dev.limited,
                                  bytes |-> w.bytes]
                       /\ IF w.ok THEN pc' = "done" /\ UNCHANGED err
                                  ELSE Fail("IoError(StorageFull)")
            IN  Written(WriteOutput([version |-> config.version,
                                     entry_size |-> config.entry_size],
                                    config.legacy, entries, dev))
  /\ calls' = <<>>
  /\ UNCHANGED <<files, idx, rd, header, config, entries, entries_len,
                 imported, readLog, cleanStop, target, migrated>>

Next == OpenFile \/ ReadStep \/ Finish

Spec == Init /\ [][Next]_vars

\* ------------------------------------------- DxvkStateCache (src/src/dxvk.rs)

\* ReadEx::read_u32 of util.rs: read_exact into a buffer of four bytes,
\* then u32::from_le_bytes; the error of read_exact is returned.
util_read_u32(f, r0) ==
  LET Match(r) ==
        [ok    |-> r.ok,
         value |-> IF r.ok THEN FromLe(r.bytes) ELSE 0,
         n     |-> Len(r.bytes),
         rd    |-> r.rd]
  IN  Match(read_exact(f, r0, 4))

\* DxvkStateCacheEntryHeader::new(n): the low byte is the stage mask, the
\* three bytes above it are the size.
DxvkStateCacheEntryHeader_new(n) ==
  [stage_mask |-> AsU8(n),
   entry_size |-> <<AsU8(n \div 256), AsU8(n \div 65536), AsU8(n \div 16777216)>>]

\* DxvkStateCacheEntryHeader::entry_size.
entry_size_of(h) == FromLe(h.entry_size \o <<0>>)

\* DxvkStateCacheEntry::with_length(length): the length of data, with the
\* outcome of length - HASH_SIZE for a length below HASH_SIZE (a panic in
\* every build: the subtraction itself, or the vec! of the wrapped length).
with_length(length) ==
  IF length >= HASH_SIZE
  THEN [panic |-> FALSE, len |-> length - HASH_SIZE]
  ELSE [panic |-> TRUE, len |-> 0]

\* read_entry of open(): the entry header by read_u32, then hash and data.
dxvk_read_entry(f, r0) ==
  LET Entry(n, hd, h, d) ==
        IF ~n.ok \/ ~h.ok \/ ~d.ok
        THEN [err |-> "UnexpectedEof", entry |-> None,
              rd |-> IF ~n.ok THEN n.rd ELSE IF ~h.ok THEN h.rd ELSE d.rd]
        ELSE [err   |-> "none",
              entry |-> Some([header |-> Some(hd), hash |-> h.bytes,
                              data |-> d.bytes]),
              rd    |-> d.rd]
      Data(n, hd, h) == Entry(n, hd, h, read_exact(f, h.rd, entry_size_of(hd)))
      Hash(n, hd) == Data(n, hd, read_exact(f, n.rd, HASH_SIZE))
      Header(n) == Hash(n, DxvkStateCacheEntryHeader_new(n.value))
  IN  Header(util_read_u32(f, r0))

\* read_entry_v7 of open(): with_length(size), then data and hash.
dxvk_read_entry_v7(f, r0, size) ==
  LET wl == with_length(size)
      Entry(d, h) ==
        IF ~d.ok \/ ~h.ok
        THEN [err |-> "UnexpectedEof", entry |-> None,
              rd |-> IF ~d.ok THEN d.rd ELSE h.rd]
        ELSE [err   |-> "none",
              entry |-> Some([header |-> None, hash |-> h.bytes,
                              data |-> d.bytes]),
              rd    |-> h.rd]
      Hash(d) == Entry(d, read_exact(f, d.rd, HASH_SIZE))
  IN  IF wl.panic THEN [err |-> "panic", entry |-> None, rd |-> r0]
      ELSE Hash(read_exact(f, r0, wl.len))

\* The loop of open(): entries in the layout the version selects, valid
\* ones inserted, until a read ends with UnexpectedEof.  read gathers
\* every entry a read returned; stop tells where in an entry the file ended.
RECURSIVE OpenLoop(_, _, _, _, _)
OpenLoop(f, r0, header0, m, read) ==
  LET Match(r) ==
        IF r.err = "none"
        THEN OpenLoop(f, r.rd, header0,
                      IF is_valid(r.entry[1]) THEN Insert(m, r.entry[1]) ELSE m,
                      Append(read, r.entry[1]))
        ELSE IF r.err = "UnexpectedEof"
        THEN [err |-> "none", entries |-> m, read |-> read,
              stop |-> IF r0.pos = Len(f) THEN "boundary" ELSE "midentry"]
        ELSE [err |-> r.err, entries |-> m, read |-> read, stop |-> "none"]
  IN  Match(IF header0.version > LEGACY_VERSION
            THEN dxvk_read_entry(f, r0)
            ELSE dxvk_read_entry_v7(f, r0, header0.entry_size))

\* DxvkStateCache::open(path).
open(file) ==
  LET f == file.bytes
      failed(kind, hdr) == [err |-> kind, header |-> hdr, entries |-> <<>>,
                            read |-> <<>>, stop |-> "none"]
      Cache(m, v, s, hdr, l) ==
        IF ~file.exists THEN failed("IoError(NotFound)", hdr)
        ELSE IF ~m.ok \/ ~v.ok \/ ~s.ok
        THEN failed("IoError(UnexpectedEof)", hdr)
        ELSE IF hdr.magic # MAGIC_STRING THEN failed("InvalidData", hdr)
        ELSE [err |-> l.err, header |-> hdr, entries |-> l.entries,
              read |-> l.read, stop |-> l.stop]
      Entries(m, v, s, hdr) ==
        Cache(m, v, s, hdr, OpenLoop(f, s.rd, hdr, <<>>, <<>>))
      Header(m, v, s) ==
        Entries(m, v, s, [magic |-> write_u32(m.value), version |-> v.value,
                          entry_size |-> s.value])
      EntrySize(m, v) == Header(m, v, util_read_u32(f, v.rd))
      Version(m) == EntrySize(m, util_read_u32(f, m.rd))
  IN  Version(util_read_u32(f, NewReader))

\* LinkedHashMap::extend(iter): every pair of iter is inserted, in order.
RECURSIVE Extend(_, _)
Extend(m, other) ==
  IF other = <<>> THEN m ELSE Extend(Insert(m, Head(other)), Tail(other))

\* DxvkStateCache::extend(other).
extend(self, other) ==
  IF self.header.version # other.header.version
  THEN [err |-> "InvalidInput", entries |-> self.entries, count |-> 0]
  ELSE LET Extended(m) ==
             [err |-> "none", entries |-> m,
              count |-> Len(m) - Len(self.entries)]
       IN  Extended(Extend(self.entries, other.entries))

\* The write_all calls of save() for one entry.
SaveEntry(e) ==
  IF e.header # None
  THEN <<write_u8(e.header[1].stage_mask), e.header[1].entry_size, e.hash, e.data>>
  ELSE <<e.data, e.hash>>

RECURSIVE SaveEntries(_)
SaveEntries(m) ==
  IF m = <<>> THEN <<>> ELSE SaveEntry(Head(m)) \o SaveEntries(Tail(m))

\* DxvkStateCache::save(path) on device dev: File::create, the header, the
\* entries, and the drop of the writer.
save(self, dev) ==
  LET Saved(r) ==
        [err     |-> IF r.ok THEN "none" ELSE "IoError(StorageFull)",
         created |-> TRUE,
         bytes   |-> DropWriter(r.w)]
  IN  IF ~dev.create
      THEN [err |-> "IoError(PermissionDenied)", created |-> FALSE, bytes |-> <<>>]
      ELSE Saved(WriteCalls(NewWriter(dev),
                            <<self.header.magic, write_u32(self.header.version),
                              write_u32(self.header.entry_size)>>
                            \o SaveEntries(self.entries)))

\* DxvkStateCache::new(), and a command line for the caches to be opened
\* from.  header and entries hold the cache that is extended and saved.
LibInit ==
  /\ files \in CommandLines
  /\ pc = "for"
  /\ idx = 1
  /\ rd = NewReader
  /\ header = [magic |-> MAGIC_STRING, version |-> 0, entry_size |-> 0]
  /\ config = [version |-> 0, entry_size |-> 0, legacy |-> FALSE]
  /\ entries = <<>>
  /\ entries_len = 0
  /\ imported = <<>>
  /\ err = "none"
  /\ out = [created |-> FALSE, limited |-> FALSE, bytes |-> <<>>]
  /\ readLog = <<>>
  /\ calls = <<>>
  /\ cleanStop = "none"
  /\ target = 0
  /\ migrated = <<>>

Logged(read, i) == [k \in 1..Len(read) |-> [file |-> i, entry |-> read[k]]]

\* let mut cache = DxvkStateCache::open(first)?
LibFirst ==
  /\ pc = "for"
  /\ idx = 1
  /\ LET Opened(o) ==
           /\ readLog' = readLog \o Logged(o.read, 1)
           /\ cleanStop' = o.stop
           /\ IF o.err # "none"
              THEN Fail(o.err) /\ UNCHANGED <<header, entries, idx>>
              ELSE /\ header' = o.header
                   /\ entries' = o.entries
                   /\ idx' = 2
                   /\ UNCHANGED <<pc, err>>
     IN  Opened(open(files[1]))
  /\ UNCHANGED <<files, rd, config, entries_len, imported, out, calls, target,
                 migrated>>

\* cache.extend(DxvkStateCache::open(next)?)?
LibExtend ==
  /\ pc = "for"
  /\ idx > 1
  /\ idx <= Len(files)
  /\ LET Extended(o, x) ==
           /\ readLog' = readLog \o Logged(o.read, idx)
           /\ cleanStop' = o.stop
           /\ IF o.err # "none"
              THEN Fail(o.err) /\ UNCHANGED <<entries, imported, idx>>
              ELSE IF x.err # "none"
              THEN Fail(x.err) /\ UNCHANGED <<entries, imported, idx>>
              ELSE /\ entries' = x.entries
                   /\ imported' = Append(imported, x.count)
                   /\ idx' = idx + 1
                   /\ UNCHANGED <<pc, err>>
         Opened(o) ==
           Extended(o, extend([header |-> header, entries |-> entries], o))
     IN  Opened(open(files[idx]))
  /\ UNCHANGED <<files, rd, header, config, entries_len, out, calls, target,
                 migrated>>

\* cache.save(output)?
LibSave ==
  /\ pc = "for"
  /\ idx > Len(files)
  /\ \E dev \in Devices :
       LET Saved(w) ==
             /\ out' = [created |-> w.created, limited |-> dev.limited,
                        bytes |-> w.bytes]
             /\ IF w.err = "none" THEN pc' = "done" /\ UNCHANGED err
                                  ELSE Fail(w.err)
       IN  Saved(save([header |-> header, entries |-> entries], dev))
  /\ UNCHANGED <<files, idx, rd, header, config, entries, entries_len,
                 imported, readLog, calls, cleanStop, target, migrated>>

LibNext == LibFirst \/ LibExtend \/ LibSave

LibSpec == LibInit /\ [][LibNext]_vars

\* ------------------------------------------------------ version migration
\* The variants of the program that take a target version (-t/--target N)
\* convert every valid entry before it is inserted and write the header of
\* the target version.  The source files at hand hold no migrator: what
\* follows is written from the specification's description of it (section
\* 4.3 and the control flow of section 2).

\* Offsets into the payload of the flags a step edits.
OFFSET_DEPTH_CLIP == 1204

OFFSET_DEPTH_BIAS == 1208

OFFSET_ALPHA_OP == 1244

\* Whether the payload holds the byte at offset off.
Holds(data, off) == Len(data) > off

\* The payload with the byte at offset off set to b; a payload shorter than
\* the offset is left as it is.
SetAt(data, off, b) ==
  IF Holds(data, off) THEN [data EXCEPT ![off + 1] = b] ELSE data

\* Whether the byte at offset off, when the payload holds it, is one of bs.
Asserted(data, off, bs) == Holds(data, off) => data[off + 1] \in bs

\* A v2->v3 step that leaves the depth-clip flag as it is.
MigrateStepKeepsClip(data, from, to) ==
  IF from = 2 /\ to = 3
  THEN IF Asserted(data, OFFSET_DEPTH_CLIP, {0, 1})
          /\ Asserted(data, OFFSET_DEPTH_BIAS, {0, 1})
       THEN [err |-> "none", data |-> SetAt(data, OFFSET_DEPTH_BIAS, 0)]
       ELSE [err |-> "panic", data |-> data]
  ELSE [err |-> "UnsupportedVersion", data |-> data]

\* One step between adjacent versions, on the payload.
MigrateStep(data, from, to) ==
  IF from = 2 /\ to = 3
  THEN IF Asserted(data, OFFSET_DEPTH_CLIP, {0, 1})
          /\ Asserted(data, OFFSET_DEPTH_BIAS, {0, 1})
       THEN [err  |-> "none",
             data |-> SetAt(SetAt(data, OFFSET_DEPTH_CLIP,
                                  IF Holds(data, OFFSET_DEPTH_CLIP)
                                  THEN 1 - data[OFFSET_DEPTH_CLIP + 1] ELSE 0),
                            OFFSET_DEPTH_BIAS, 0)]
       ELSE [err |-> "panic", data |-> data]
  ELSE IF from = 3 /\ to = 2
  THEN IF Asserted(data, OFFSET_DEPTH_CLIP, {0, 1})
       THEN LET clip == IF Holds(data, OFFSET_DEPTH_CLIP)
                        THEN 1 - data[OFFSET_DEPTH_CLIP + 1] ELSE 0
                d == SetAt(data, OFFSET_DEPTH_CLIP, clip)
            IN  [err  |-> "none",
                 data |-> IF clip = 1 THEN SetAt(d, OFFSET_DEPTH_BIAS, 1) ELSE d]
       ELSE [err |-> "panic", data |-> data]
  ELSE IF from = 3 /\ to = 4
  THEN IF Asserted(data, OFFSET_ALPHA_OP, {0})
       THEN [err |-> "none", data |-> SetAt(data, OFFSET_ALPHA_OP, 7)]
       ELSE [err |-> "panic", data |-> data]
  ELSE IF from = 4 /\ to = 3
  THEN IF Asserted(data, OFFSET_ALPHA_OP, {7})
       THEN [err |-> "none", data |-> SetAt(data, OFFSET_ALPHA_OP, 0)]
       ELSE [err |-> "panic", data |-> data]
  ELSE [err |-> "UnsupportedVersion", data |-> data]

\* convert(entry, from, to): one step at a time toward the target, the
\* hash recomputed after each step, until from = to.
RECURSIVE convert(_, _, _)
convert(e, from, to) ==
  IF from = to THEN [err |-> "none", entry |-> e]
  ELSE LET nxt == IF from < to THEN from + 1 ELSE from - 1
           Rehashed(data) ==
             [e EXCEPT !.data = data,
                       !.hash = Sha1(IF nxt < 8 THEN data \o SHA1_EMPTY
                                                ELSE data)]
           Match(st) ==
             IF st.err # "none" THEN [err |-> st.err, entry |-> e]
             ELSE convert(Rehashed(st.data), nxt, to)
       IN  Match(MigrateStep(e.data, from, nxt))

\* A payload of len bytes with the three flags set.
Payload(len, clip, bias, alpha) ==
  [i \in 1..len |-> IF i = OFFSET_DEPTH_CLIP + 1 THEN clip
                    ELSE IF i = OFFSET_DEPTH_BIAS + 1 THEN bias
                    ELSE IF i = OFFSET_ALPHA_OP + 1 THEN alpha
                    ELSE i % 5]

\* The payloads of the input files of migrating runs, by length: one that
\* holds none of the flags, ones that hold the depth-clip flag only, and
\* ones that hold all three.
MigPayloads ==
  { <<Payload(2, 0, 0, 0)>> }
  \cup { <<Payload(OFFSET_DEPTH_CLIP + 2, c, 0, 0)>> : c \in {0, 1} }
  \cup { <<Payload(OFFSET_ALPHA_OP + 2, f[1], f[2], f[3]),
           Payload(OFFSET_ALPHA_OP + 2, 1 - f[1], f[2], f[3])>> :
           f \in {<<0, 0, 0>>, <<1, 1, 0>>, <<0, 1, 7>>, <<1, 0, 7>>} }
  \cup { <<Payload(OFFSET_ALPHA_OP + 2, 2, 0, 0)>> }

\* A legacy file of version v with the payloads ps, the last entry corrupt
\* when bad.
MigFile(v, ps, bad) ==
  LET es == [i \in 1..Len(ps) |->
               IF bad /\ i = Len(ps) THEN Corrupt(LegacyEntry(ps[i]))
                                     ELSE LegacyEntry(ps[i])]
  IN  InputFile(LegacyBytes(v, Len(ps[1]) + HASH_SIZE, es))

MigCorpus ==
  { MigFile(v, ps, bad) : v \in {2, 3, 4}, ps \in MigPayloads, bad \in BOOLEAN }

MigTargets == {2, 3, 4, 5}

\* A migrating run: one input file and a target version.
MigInit ==
  /\ files \in [1..1 -> MigCorpus]
  /\ target \in MigTargets
  /\ pc = "for"
  /\ idx = 1
  /\ rd = NewReader
  /\ header = [version |-> 0, entry_size |-> 0]
  /\ config = [version |-> 0, entry_size |-> 0, legacy |-> FALSE]
  /\ entries = <<>>
  /\ entries_len = 0
  /\ imported = <<>>
  /\ err = "none"
  /\ out = [created |-> FALSE, limited |-> FALSE, bytes |-> <<>>]
  /\ readLog = <<>>
  /\ calls = <<>>
  /\ cleanStop = "none"
  /\ migrated = <<>>

\* A step of the read loop of a migrating run: a valid entry is converted
\* from the detected version to the target and then inserted; an entry the
\* migrator cannot convert ends the run.
MigReadStep ==
  /\ pc = "loop"
  /\ LET Converted(e, c) ==
           IF c.err # "none"
           THEN Fail(c.err)
                /\ UNCHANGED <<idx, imported, cleanStop, entries, migrated>>
           ELSE /\ entries' = Insert(entries, c.entry)
                /\ migrated' = Append(migrated, [from |-> e, to |-> c.entry])
                /\ UNCHANGED <<pc, err, idx, imported, cleanStop>>
         Valid(e) ==
           IF ~is_valid(e)
           THEN UNCHANGED <<pc, err, idx, imported, cleanStop, entries, migrated>>
           ELSE Converted(e, convert(e, config.version, target))
         Match(f, it) ==
           /\ rd' = it.rd
           /\ calls' = it.calls
           /\ readLog' = IF it.read = None THEN readLog
                         ELSE Append(readLog,
                                     [file |-> idx, entry |-> it.read[1]])
           /\ IF it.kind = "ok"
              THEN Valid(it.read[1])
              ELSE IF it.kind = "break"
              THEN /\ imported' = Append(imported, Len(entries) - entries_len)
                   /\ cleanStop' = IF rd.pos = Len(f) THEN "boundary"
                                                      ELSE "midentry"
                   /\ idx' = idx + 1
                   /\ pc' = "for"
                   /\ UNCHANGED <<err, entries, migrated>>
              ELSE Fail(it.kind)
                   /\ UNCHANGED <<idx, imported, cleanStop, entries, migrated>>
     IN  Match(files[idx].bytes,
               LoopIteration(files[idx].bytes, rd, config.legacy,
                             header.entry_size, <<>>))
  /\ UNCHANGED <<files, header, config, entries_len, out, target>>

\* The end of a migrating run: the header carries the target version and
\* the entries are written in the layout of the target version.
MigFinish ==
  /\ pc = "for"
  /\ idx > Len(files)
  /\ IF entries = <<>>
     THEN Fail("InvalidData") /\ UNCHANGED out
     ELSE /\ out' = [created |-> TRUE, limited |-> FALSE,
                     bytes |-> WriteOutput([version |-> target,
                                            entry_size |-> config.entry_size],
                                           target < 8, entries,
                                           [create |-> TRUE, limited |-> FALSE,
                                            room |-> 0]).bytes]
          /\ pc' = "done"
          /\ UNCHANGED err
  /\ calls' = <<>>
  /\ UNCHANGED <<files, idx, rd, header, config, entries, entries_len,
                 imported, readLog, cleanStop, target, migrated>>

MigNext == OpenFile \/ MigReadStep \/ MigFinish

MigSpec == MigInit /\ [][MigNext]_vars

\* ------------------------------------------------- the run, from its history

\* The entries of the log that pass is_valid, read from the files 1..k.
ValidRead(k) ==
  SelectSeq(readLog, LAMBDA x : x.file <= k /\ is_valid(x.entry))

HashesOf(log) == {log[i].entry.hash : i \in 1..Len(log)}

\* The hashes of a log, each at the place of its last occurrence.
LastOrder(log) ==
  LET keep == SelectSeq([i \in 1..Len(log) |-> i],
                        LAMBDA i : \A j \in (i + 1)..Len(log) :
                                     log[j].entry.hash # log[i].entry.hash)
  IN  [i \in 1..Len(keep) |-> log[keep[i]].entry.hash]

\* The hashes of a log, each at the place of its first occurrence.
FirstOrder(log) ==
  LET keep == SelectSeq([i \in 1..Len(log) |-> i],
                        LAMBDA i : \A j \in 1..(i - 1) :
                                     log[j].entry.hash # log[i].entry.hash)
  IN  [i \in 1..Len(keep) |-> log[keep[i]].entry.hash]

\* The last entry of a log with hash h.
LastWith(log, h) ==
  LET is == {i \in 1..Len(log) : log[i].entry.hash = h}
  IN  log[CHOOSE i \in is : \A j \in is : j <= i].entry

\* main() read as a function of one file: the header, the checks that
\* precede the read loop, and the read loop to its end, with a
\* Config::default() and an empty map.
RECURSIVE ReadLoop(_, _, _, _, _)
ReadLoop(f, r0, legacy, entry_size, m) ==
  LET it == LoopIteration(f, r0, legacy, entry_size, m)
  IN  IF it.kind = "ok" THEN ReadLoop(f, it.rd, legacy, entry_size, it.m)
      ELSE [kind |-> it.kind, m |-> it.m]

Reload(f) ==
  LET h == read_header(f, NewReader)
      cfg == Detect([version |-> 0, entry_size |-> 0, legacy |-> FALSE], h)
      l == ReadLoop(f, h.rd, cfg.legacy, h.entry_size, <<>>)
  IN  IF h.err # "none" THEN [err |-> h.err]
      ELSE IF h.magic # MAGIC_STRING THEN [err |-> "InvalidData"]
      ELSE IF l.kind # "break" THEN [err |-> l.kind]
      ELSE [err |-> "none", version |-> h.version,
            entry_size |-> h.entry_size, entries |-> l.m]

Pairs(m) == [i \in 1..Len(m) |-> [hash |-> m[i].hash, data |-> m[i].data]]

\* The version in the header of the first file of the command line.
FirstVersion == read_header(files[1].bytes, NewReader).version

\* ------------------------------------------------------------------ claims

\* C1: at every point of the merge, the keys of the store are exactly the
\* hashes of the entries read so far that pass is_valid (invalid entries
\* are never stored), the size of the store is the size of that set, each
\* printed "new entries" count is the size of the set after the file minus
\* its size before it, and the value stored for a hash is the last valid
\* entry read with that hash (the one of the latest file).
C1_MergeIsUnionLatestWins ==
  LET log == ValidRead(Len(files))
  IN  /\ Keys(entries) = HashesOf(log)
      /\ Len(entries) = Cardinality(HashesOf(log))
      /\ \A i \in 1..Len(imported) :
           imported[i] = Cardinality(HashesOf(ValidRead(i)))
                         - Cardinality(HashesOf(ValidRead(i - 1)))
      /\ \A i \in 1..Len(entries) : entries[i] = LastWith(log, entries[i].hash)

\* C1 witness: two files were merged, the second one brought a hash of the
\* first one with another value and no new hash, an invalid entry was read
\* and dropped, and the later value is the one stored.
C1_Witness ==
  /\ pc = "for"
  /\ imported = <<2, 0>>
  /\ \E i \in 1..Len(readLog) : ~is_valid(readLog[i].entry)
  /\ \E i, j \in 1..Len(readLog) :
       /\ readLog[i].file = 1 /\ readLog[j].file = 2
       /\ is_valid(readLog[i].entry) /\ is_valid(readLog[j].entry)
       /\ readLog[i].entry.hash = readLog[j].entry.hash
       /\ readLog[i].entry # readLog[j].entry
       /\ \E k \in 1..Len(entries) : entries[k] = readLog[j].entry

C3_OneVersionPerRun ==
  /\ pc = "loop" => header.version = FirstVersion
  /\ \A i \in 1..Len(readLog) :
       read_header(files[readLog[i].file].bytes, NewReader).version = FirstVersion

\* C4: a run that ended with a fatal error has not created the output file.
C4_NoOutputOnFailure == pc = "failed" => ~out.created

\* C5: no entry is read from a file whose header version is outside the
\* known versions (0 and 1 are outside): the read loop is not entered.
C5_UnsupportedVersionRejected == pc = "loop" => header.version >= 2

\* C6: a read loop does not end without error when the file ended after at
\* least one byte of an entry had been consumed.
C6_TruncationIsAnError == cleanStop # "midentry"

\* C7: when a run whose files carry one version is done on a device that
\* takes every byte, re-reading the written file yields the header fields
\* of the run and the (hash, data) pairs of the store, in order.
C7_RoundTrip ==
  (pc = "done" /\ ~out.limited /\ config.version = FirstVersion) =>
    LET back == Reload(out.bytes)
    IN  /\ back.err = "none"
        /\ back.version = config.version
        /\ back.entry_size = config.entry_size
        /\ Pairs(back.entries) = Pairs(entries)

\* The payload of a v2 entry after the v2->v3 step: the byte at offset 1204
\* inverted, the byte at offset 1208 zero, every other byte as it was.
EditedV2V3(data) ==
  [i \in 1..Len(data) |-> IF i = 1205 THEN 1 - data[i]
                          ELSE IF i = 1209 THEN 0
                          ELSE data[i]]

\* The entries of a migrating run are the converted ones, and what is
\* written re-reads as the store under the header of the target version.
StoredAndWritten ==
  /\ \A k \in 1..Len(entries) :
       \E i \in 1..Len(migrated) : entries[k] = migrated[i].to
  /\ \A i \in 1..Len(migrated) : migrated[i].to.hash \in Keys(entries)
  /\ pc = "done" =>
       LET back == Reload(out.bytes)
       IN  /\ back.err = "none"
           /\ back.version = target
           /\ Pairs(back.entries) = Pairs(entries)

\* A run whose target lies beyond v4 converts nothing and does not end well;
\* with a valid entry to convert it fails in the migrator: with the
\* unsupported-version error, or with the assertion of an earlier step.
BeyondV4Fails ==
  target > 4 =>
    /\ migrated = <<>>
    /\ entries = <<>>
    /\ pc # "done"
    /\ (\E i \in 1..Len(readLog) : is_valid(readLog[i].entry)) =>
         (pc = "failed" /\ err \in {"UnsupportedVersion", "panic"})

\* C8 (as claimed): in a run from v2 to v3 every entry stored and written is
\* the entry read with byte 1204 inverted and byte 1208 zero, its hash is
\* the hash of the new payload and differs from the hash read; the header
\* written carries version 3; a target beyond v4 fails.
C8_AsClaimed ==
  /\ (FirstVersion = 2 /\ target = 3) =>
       /\ \A i \in 1..Len(migrated) :
            LET a == migrated[i].from
                b == migrated[i].to
            IN  /\ b.data = EditedV2V3(a.data)
                /\ b.hash = Sha1(b.data \o SHA1_EMPTY)
                /\ b.hash # a.hash
       /\ StoredAndWritten
  /\ BeyondV4Fails

\* C8 (amended): as claimed for every entry whose payload holds offset 1204;
\* an entry with a shorter payload is stored as it was read, with the hash
\* it was read with.
C8_MigrationV2V3 ==
  /\ (FirstVersion = 2 /\ target = 3) =>
       /\ \A i \in 1..Len(migrated) :
            LET a == migrated[i].from
                b == migrated[i].to
            IN  /\ b.data = EditedV2V3(a.data)
                /\ b.hash = Sha1(b.data \o SHA1_EMPTY)
                /\ IF Len(a.data) > 1204 THEN b.hash # a.hash ELSE b = a
       /\ StoredAndWritten
  /\ BeyondV4Fails

\* C8 witness: a run from v2 to v3 is done, it converted two entries that
\* hold all the flags, and one of them had the depth-bias flag set.
C8_Witness ==
  /\ pc = "done"
  /\ FirstVersion = 2
  /\ target = 3
  /\ Len(migrated) = 2
  /\ \A i \in 1..Len(migrated) : Len(migrated[i].from.data) > 1208
  /\ \E i \in 1..Len(migrated) :
       migrated[i].from.data[1209] = 1 /\ migrated[i].to.data[1209] = 0

\* C9: a codec call that finds as many bytes as it wants consumes exactly
\* those and returns their little-endian value; a call that finds fewer
\* returns an error.
C9_CodecContract ==
  \A i \in 1..Len(calls) :
    LET c == calls[i]
    IN  IF Len(c.ahead) = c.want
        THEN c.ok /\ c.n = c.want /\ c.value = FromLe(c.ahead)
        ELSE ~c.ok

\* C10: the length of a legacy entry's payload is computed without a panic
\* for every entry_size.
C10_LegacyLengthDefined == err # "panic"

=============================================================================
